---- MODULE Spec2Model ----
(***************************************************************************)
(* Model of the ETIM -> Oekobaudat alignment programs.                     *)
(*                                                                         *)
(*   prog = "map"      : main() of 02_map_etim_to_oekobaudat_llm.py, the   *)
(*                       alignment run around LLMOnlyMatcher.create_mapping*)
(*   prog = "validate" : the LLM branch of main() of                       *)
(*                       03_validate_accuracy.py, the scoring harness      *)
(*                       around AzureOpenAIMatcher.find_best_match_llm     *)
(*                                                                         *)
(* Confidence scores are kept in hundredths (0.5 is 50).                   *)
(***************************************************************************)
EXTENDS Integers, Sequences, FiniteSets, TLC

VARIABLES
    prog,            \* which program runs
    pc,              \* position of main()
    endpoint,        \* os.getenv('AZURE_OPENAI_ENDPOINT')
    api_key,         \* os.getenv('AZURE_OPENAI_API_KEY')
    loaded,          \* the taxonomy has been parsed
    categories,      \* parser.parse(): the category list
    bsdd_classes,    \* the external entries
    i,               \* loop index (enumerate(bsdd_classes, 1))
    prompt,          \* candidates listed in the prompt of the current call
    llm_candidates,  \* candidates the harness hands to find_best_match_llm
    response,        \* what the LLM call of the current entry produced
    mappings,        \* main(): mappings
    llm_predictions, \* 03 main(): llm_predictions
    outcome,         \* per processed entry: did the matcher yield a result
    events,          \* trace of matcher calls, returns and delays
    output,          \* the output files have been written
    stub,            \* twin runs: the deterministic matcher, entry -> response
    first,           \* twin runs: the mapping set of the first run
    run,             \* twin runs: which run is under way
    doc,             \* the source data read: the taxonomy document, the class data
    index,           \* 01: OekobaudatRdfBuilder.categories
    graph,           \* 01: OekobaudatRdfBuilder.graph, a set of triples
    text,            \* AutoTranslator.translate: german_text
    cache,           \* AutoTranslator.cache
    translated,      \* AutoTranslator.translate: what it returned
    target,          \* 01: the category handed to translate_category
    scored,          \* create_validation_sample: scored_classes
    sample_size,     \* create_validation_sample: sample_size
    sample,          \* create_validation_sample: sample
    ground_truth,    \* evaluate_method: ground_truth
    predictions,     \* evaluate_method: predictions
    accuracy,        \* evaluate_method: correct and total of the accuracy
    errors           \* evaluate_method: errors

alignVars == <<prog, pc, endpoint, api_key, loaded, categories, bsdd_classes, i,
          prompt, llm_candidates, response, mappings, llm_predictions,
          outcome, events, output>>

twinVars == <<stub, first, run>>

buildVars == <<doc, index, graph>>

translateVars == <<text, cache, translated, target>>

sampleVars == <<scored, sample_size, sample>>

scoreVars == <<ground_truth, predictions, accuracy, errors>>

vars == <<alignVars, twinVars, buildVars, translateVars, sampleVars, scoreVars>>

----------------------------------------------------------------------------
(* Bounds of the model *)

MaxEntries == 2
MaxCats == 12

(* Program constants *)

TopK == 10
DefaultTopN == 10
LowConfidence == 50

----------------------------------------------------------------------------
(* Helpers *)

MinOf(S) == CHOOSE x \in S : \A y \in S : x <= y

\* Python's s[:n] for n >= 0
Take(s, n) == SubSeq(s, 1, IF n < Len(s) THEN n ELSE Len(s))

IsPrefix(s, t) == Len(s) <= Len(t) /\ SubSeq(t, 1, Len(s)) = s

Ids(cats) == {cats[k].id : k \in 1..Len(cats)}

----------------------------------------------------------------------------
(* Data *)

OekobaudatCategory(id, name) == [id |-> id, name_de |-> name]

BsddClass(code) == [code |-> code]

CatList(n) == [k \in 1..n |-> OekobaudatCategory(k, k)]

\* a source that repeats an identifier
DupList == <<OekobaudatCategory(1, 1), OekobaudatCategory(2, 2), OekobaudatCategory(1, 3)>>

Taxonomies == {CatList(0), CatList(3), CatList(MaxCats), DupList}

EntryList(n) == [k \in 1..n |-> BsddClass(k)]

EnvValues == {"unset", "empty", "set"}

\* an identifier no category carries
UnknownId == MaxCats + 1

AllKeys == {"category_id", "category_name", "confidence", "match_type", "reasoning"}

NoResponse == [kind |-> "none", keys |-> {}, category_id |-> 0, confidence |-> 0,
               conf_ok |-> FALSE, match_type |-> "", reasoning |-> ""]

Failure(kind) == [NoResponse EXCEPT !.kind = kind]

Json(kind, keys, id, conf, conf_ok, mt) ==
    [kind |-> kind, keys |-> keys, category_id |-> id, confidence |-> conf,
     conf_ok |-> conf_ok, match_type |-> IF "match_type" \in keys THEN mt ELSE "",
     reasoning |-> IF "reasoning" \in keys THEN "because" ELSE ""]

ConfValues == {-20, 0, 49, 50, 69, 70, 89, 90, 100, 150}

MatchTypes == {"exactMatch", "closeMatch", "relatedMatch", "noMatch", "bogus"}

SelectableIds == {1, TopK + 1, UnknownId}

\* what the LLM call of the alignment run can produce
Responses ==
    {Failure("exception"), Failure("empty"), Failure("badjson"), Failure("nonobject")}
    \cup {Json("json", AllKeys, id, c, TRUE, mt) :
            id \in SelectableIds, c \in ConfValues, mt \in MatchTypes}
    \cup {Json("json", AllKeys \ {"match_type"}, id, c, TRUE, "") :
            id \in SelectableIds, c \in ConfValues}
    \cup {Json("json", AllKeys \ {k}, 1, c, TRUE, "closeMatch") :
            k \in {"category_id", "confidence", "reasoning"}, c \in {49, 90}}
    \cup {Json("json", AllKeys, 1, 0, FALSE, "closeMatch")}

----------------------------------------------------------------------------
(* utils/config.py *)

\* os.getenv yields None when unset; "not value" also holds of the empty string
IsMissing(v) == v \in {"unset", "empty"}

\* variant: the API key is not checked
get_azure_config_EndpointOnly(ep, key) == ~IsMissing(ep)

\* get_azure_config: TRUE when it returns the dict, FALSE when it raises ValueError
get_azure_config(ep, key) ==
    IF IsMissing(ep) THEN FALSE
    ELSE IF IsMissing(key) THEN FALSE
    ELSE TRUE

----------------------------------------------------------------------------
(* 02_map_etim_to_oekobaudat_llm.py : LLMOnlyMatcher *)

\* create_prompt: the candidates listed in the prompt, candidates[:10]
create_prompt(candidates) == Take(candidates, TopK)

\* variant: an unknown identifier falls back to the first category
FindCategory_Coerces(cats, id) ==
    LET hits == {k \in 1..Len(cats) : cats[k].id = id}
    IN  IF hits # {} THEN <<cats[MinOf(hits)]>>
        ELSE IF cats = <<>> THEN <<>> ELSE <<cats[1]>>

\* next((c for c in categories if c.id == id), None): <<>> is None
FindCategory(cats, id) ==
    LET hits == {k \in 1..Len(cats) : cats[k].id = id}
    IN  IF hits = {} THEN <<>> ELSE <<cats[MinOf(hits)]>>

Mapping(cls, cat, mt, conf, reasoning) ==
    [bsdd_class |-> cls, oekobaudat_category |-> cat, match_type |-> mt,
     confidence_score |-> conf, reasoning |-> reasoning, method |-> "llm-only"]

\* result.get('match_type', 'closeMatch')
ProposedMatchType(resp) ==
    IF "match_type" \in resp.keys THEN resp.match_type ELSE "closeMatch"

\* variant: a low-confidence answer is discarded
BuildMapping_DropsLowConfidence(cls, cat, resp) ==
    IF "confidence" \notin resp.keys THEN <<>>
    ELSE IF ~resp.conf_ok THEN <<>>
    ELSE IF resp.confidence < LowConfidence THEN <<>>
    ELSE IF "reasoning" \notin resp.keys THEN <<>>
    ELSE <<Mapping(cls, cat, ProposedMatchType(resp), resp.confidence, resp.reasoning)>>

\* the Mapping built once the category is found; <<>> is None
BuildMapping(cls, cat, resp) ==
    IF "confidence" \notin resp.keys THEN <<>>            \* KeyError
    ELSE IF ~resp.conf_ok THEN <<>>                       \* float() raises
    ELSE IF resp.confidence < LowConfidence
    THEN IF "reasoning" \notin resp.keys THEN <<>>        \* KeyError
         ELSE <<Mapping(cls, cat, "noMatch", resp.confidence, resp.reasoning)>>
    ELSE IF "reasoning" \notin resp.keys THEN <<>>        \* KeyError
    ELSE <<Mapping(cls, cat, ProposedMatchType(resp), resp.confidence, resp.reasoning)>>

\* create_mapping after query_llm produced resp: <<m>> is a Mapping, <<>> is None
create_mapping(cls, cats, resp) ==
    IF resp.kind = "exception" THEN <<>>                  \* except Exception
    ELSE IF resp.kind = "empty" THEN <<>>                 \* empty response
    ELSE IF resp.kind = "badjson" THEN <<>>               \* JSONDecodeError
    ELSE IF resp.kind = "nonobject" THEN <<>>             \* TypeError on result[...]
    ELSE IF "category_id" \notin resp.keys THEN <<>>      \* KeyError
    ELSE LET category == FindCategory(cats, resp.category_id)
         IN  IF category = <<>> THEN <<>>                 \* unknown category ID
             ELSE BuildMapping(cls, category[1], resp)

\* variant: the new mapping is put in front
AppendResult_Prepends(list, result) ==
    IF result # <<>> THEN <<result[1]>> \o list ELSE list

\* variant: an entry already mapped by an earlier run is not mapped again
AppendResult_SkipsKnown(list, result) ==
    IF result # <<>> /\ \A k \in 1..Len(first) : first[k] # result[1]
    THEN Append(list, result[1]) ELSE list

\* main(): if mapping: mappings.append(mapping)
AppendResult(list, result) ==
    IF result # <<>> THEN Append(list, result[1]) ELSE list

\* variant: the delay also follows the last entry
NeedsDelay_AfterEvery(idx, n) == idx <= n

\* main(): if i < len(bsdd_classes): time.sleep(0.5)
NeedsDelay(idx, n) == idx < n

----------------------------------------------------------------------------
(* utils/llm_matcher_azure.py : AzureOpenAIMatcher *)

\* variant: the candidate list is not cut
TopCandidates_All(cats, top_n) == cats

\* candidates = oekobaudat_categories[:top_n]
TopCandidates(cats, top_n) == Take(cats, top_n)

LLMMatchResult(resp) ==
    [category_id |-> resp.category_id, confidence |-> resp.confidence,
     match_type |-> ProposedMatchType(resp), reasoning |-> resp.reasoning]

\* find_best_match_llm after query_azure_openai produced resp; a fenced
\* response is unwrapped and parsed like a bare one
find_best_match_llm(candidates, resp) ==
    IF resp.kind = "exception" THEN <<>>                  \* re-raised, except Exception
    ELSE IF resp.kind = "empty" THEN <<>>                 \* None.strip() / no JSON
    ELSE IF resp.kind = "badjson" THEN <<>>               \* JSONDecodeError
    ELSE IF resp.kind = "nonobject" THEN <<>>             \* TypeError
    ELSE IF {"category_id", "category_name", "confidence", "reasoning"} \ resp.keys # {}
    THEN <<>>                                             \* KeyError
    ELSE IF ~resp.conf_ok THEN <<>>                       \* float() raises
    ELSE <<LLMMatchResult(resp)>>

\* what the LLM call of the scoring harness can produce
AzureResponses ==
    {Failure("exception"), Failure("badjson")}
    \cup {Json(k, AllKeys, id, c, TRUE, "closeMatch") :
            k \in {"json", "fenced"}, id \in SelectableIds, c \in {30, 95}}
    \cup {Json("json", AllKeys \ {"category_name"}, 1, 95, TRUE, "closeMatch")}

\* 03 main(): the LLMMapping wrapped around a result
LLMMapping(cls, result) ==
    [bsdd_class |-> cls, oekobaudat_category |-> [id |-> result.category_id],
     confidence_score |-> result.confidence]

\* the candidate lists skos_matcher.find_best_matches may hand over
CandidateLists == {CatList(0), CatList(3), CatList(MaxCats)}

----------------------------------------------------------------------------
(* Initial state: nothing has run; the environment may or may not hold the
   credentials *)

\* the parts of the state a program does not use
IdleTwin == stub = <<>> /\ first = <<>> /\ run = 0

IdleBuild == doc = <<>> /\ index = <<>> /\ graph = {}

IdleTranslate == text = <<>> /\ cache = <<>> /\ translated = <<>> /\ target = <<>>

IdleSample == scored = <<>> /\ sample_size = 0 /\ sample = <<>>

IdleScore == ground_truth = <<>> /\ predictions = <<>> /\ accuracy = <<>> /\ errors = <<>>

Init ==
    /\ prog \in {"map", "validate"}
    /\ pc = "config"
    /\ endpoint \in EnvValues
    /\ api_key \in EnvValues
    /\ loaded = FALSE
    /\ categories = <<>>
    /\ bsdd_classes = <<>>
    /\ i = 0
    /\ prompt = <<>>
    /\ llm_candidates = <<>>
    /\ response = NoResponse
    /\ mappings = <<>>
    /\ llm_predictions = <<>>
    /\ outcome = <<>>
    /\ events = <<>>
    /\ output = FALSE
    /\ IdleTwin /\ IdleBuild /\ IdleTranslate /\ IdleSample /\ IdleScore

Event(ev, idx) == [ev |-> ev, entry |-> idx]

----------------------------------------------------------------------------
(* 02_map_etim_to_oekobaudat_llm.py : main() *)

\* get_azure_config() inside try/except ValueError: return
Configure ==
    /\ prog = "map" /\ pc = "config"
    /\ pc' = IF get_azure_config(endpoint, api_key) THEN "load" ELSE "aborted"
    /\ UNCHANGED <<prog, endpoint, api_key, loaded, categories, bsdd_classes, i,
                   prompt, llm_candidates, response, mappings, llm_predictions,
                   outcome, events, output>>
    /\ UNCHANGED <<twinVars, buildVars, translateVars, sampleVars, scoreVars>>

\* [1/4] categories = parser.parse()
LoadTaxonomy ==
    /\ prog = "map" /\ pc = "load"
    /\ \E t \in Taxonomies : categories' = t
    /\ loaded' = TRUE
    /\ pc' = "fetch"
    /\ UNCHANGED <<prog, endpoint, api_key, bsdd_classes, i, prompt,
                   llm_candidates, response, mappings, llm_predictions,
                   outcome, events, output>>
    /\ UNCHANGED <<twinVars, buildVars, translateVars, sampleVars, scoreVars>>

\* ET.parse raises on a missing or unparsable file: main() ends with the error
LoadTaxonomyFails ==
    /\ prog = "map" /\ pc = "load"
    /\ pc' = "crashed"
    /\ UNCHANGED <<prog, endpoint, api_key, loaded, categories, bsdd_classes, i,
                   prompt, llm_candidates, response, mappings, llm_predictions,
                   outcome, events, output>>
    /\ UNCHANGED <<twinVars, buildVars, translateVars, sampleVars, scoreVars>>

\* [2/4] get_etim_classes; an empty list or an exception ends main()
FetchEntries ==
    /\ prog = "map" /\ pc = "fetch"
    /\ \E n \in 0..MaxEntries :
          /\ bsdd_classes' = EntryList(n)
          /\ IF n = 0 THEN pc' = "aborted" /\ i' = i
                      ELSE pc' = "call" /\ i' = 1
    /\ UNCHANGED <<prog, endpoint, api_key, loaded, categories, prompt,
                   llm_candidates, response, mappings, llm_predictions,
                   outcome, events, output>>
    /\ UNCHANGED <<twinVars, buildVars, translateVars, sampleVars, scoreVars>>

\* create_mapping: the prompt is built and query_llm is invoked
StartCall ==
    /\ prog = "map" /\ pc = "call"
    /\ prompt' = create_prompt(categories)
    /\ response' = NoResponse
    /\ events' = Append(events, Event("call", i))
    /\ pc' = "inflight"
    /\ UNCHANGED <<prog, endpoint, api_key, loaded, categories, bsdd_classes, i,
                   llm_candidates, mappings, llm_predictions, outcome, output>>
    /\ UNCHANGED <<twinVars, buildVars, translateVars, sampleVars, scoreVars>>

\* query_llm returns or raises; create_mapping ends; the rest of the loop body
\* runs up to the delay, or up to the next iteration when there is no delay
FinishCall ==
    /\ prog = "map" /\ pc = "inflight"
    /\ \E r \in Responses :
          LET result == create_mapping(bsdd_classes[i], categories, r)
          IN  /\ response' = r
              /\ mappings' = AppendResult(mappings, result)
              /\ outcome' = Append(outcome, result # <<>>)
    /\ events' = Append(events, Event("return", i))
    /\ IF NeedsDelay(i, Len(bsdd_classes)) THEN pc' = "sleep" /\ i' = i
       ELSE IF i < Len(bsdd_classes) THEN pc' = "call" /\ i' = i + 1
       ELSE pc' = "output" /\ i' = i
    /\ UNCHANGED <<prog, endpoint, api_key, loaded, categories, bsdd_classes,
                   prompt, llm_candidates, llm_predictions, output>>
    /\ UNCHANGED <<twinVars, buildVars, translateVars, sampleVars, scoreVars>>

\* time.sleep(0.5) returns; the for loop takes the next entry or ends
Delay ==
    /\ prog = "map" /\ pc = "sleep"
    /\ events' = Append(events, Event("sleep", i))
    /\ IF i < Len(bsdd_classes) THEN pc' = "call" /\ i' = i + 1
                                ELSE pc' = "output" /\ i' = i
    /\ UNCHANGED <<prog, endpoint, api_key, loaded, categories, bsdd_classes,
                   prompt, llm_candidates, response, mappings, llm_predictions,
                   outcome, output>>
    /\ UNCHANGED <<twinVars, buildVars, translateVars, sampleVars, scoreVars>>

\* [4/4] the RDF and JSON files are written from mappings
WriteOutputs ==
    /\ prog = "map" /\ pc = "output"
    /\ output' = TRUE
    /\ pc' = "done"
    /\ UNCHANGED <<prog, endpoint, api_key, loaded, categories, bsdd_classes, i,
                   prompt, llm_candidates, response, mappings, llm_predictions,
                   outcome, events>>
    /\ UNCHANGED <<twinVars, buildVars, translateVars, sampleVars, scoreVars>>

----------------------------------------------------------------------------
(* 03_validate_accuracy.py : main(), LLM method *)

\* get_azure_config() is not guarded here: a ValueError ends main()
ValidateConfigure ==
    /\ prog = "validate" /\ pc = "config"
    /\ pc' = IF get_azure_config(endpoint, api_key) THEN "load" ELSE "crashed"
    /\ UNCHANGED <<prog, endpoint, api_key, loaded, categories, bsdd_classes, i,
                   prompt, llm_candidates, response, mappings, llm_predictions,
                   outcome, events, output>>
    /\ UNCHANGED <<twinVars, buildVars, translateVars, sampleVars, scoreVars>>

\* the annotated records become the entries; the taxonomy is loaded
ValidateLoad ==
    /\ prog = "validate" /\ pc = "load"
    /\ \E n \in 0..MaxEntries :
          /\ bsdd_classes' = EntryList(n)
          /\ pc' = IF n = 0 THEN "output" ELSE "call"
    /\ \E t \in {CatList(3), CatList(MaxCats)} : categories' = t
    /\ loaded' = TRUE
    /\ i' = 1
    /\ UNCHANGED <<prog, endpoint, api_key, prompt, llm_candidates, response,
                   mappings, llm_predictions, outcome, events, output>>
    /\ UNCHANGED <<twinVars, buildVars, translateVars, sampleVars, scoreVars>>

\* candidates from the SKOS matcher are handed to find_best_match_llm, which
\* cuts them to top_n (left at its default) and queries the LLM
AzureStartCall ==
    /\ prog = "validate" /\ pc = "call"
    /\ \E c \in CandidateLists :
          /\ Len(c) <= Len(categories)
          /\ llm_candidates' = c
          /\ prompt' = TopCandidates(c, DefaultTopN)
    /\ response' = NoResponse
    /\ events' = Append(events, Event("call", i))
    /\ pc' = "inflight"
    /\ UNCHANGED <<prog, endpoint, api_key, loaded, categories, bsdd_classes, i,
                   mappings, llm_predictions, outcome, output>>
    /\ UNCHANGED <<twinVars, buildVars, translateVars, sampleVars, scoreVars>>

\* if result: llm_predictions.append(LLMMapping(cls, result))
AppendPrediction(list, cls, result) ==
    IF result # <<>> THEN Append(list, LLMMapping(cls, result[1])) ELSE list

AzureFinishCall ==
    /\ prog = "validate" /\ pc = "inflight"
    /\ \E r \in AzureResponses :
          LET result == find_best_match_llm(prompt, r)
          IN  /\ response' = r
              /\ llm_predictions' = AppendPrediction(llm_predictions, bsdd_classes[i], result)
              /\ outcome' = Append(outcome, result # <<>>)
    /\ events' = Append(events, Event("return", i))
    /\ IF i < Len(bsdd_classes) THEN pc' = "call" /\ i' = i + 1
                                ELSE pc' = "output" /\ i' = i
    /\ UNCHANGED <<prog, endpoint, api_key, loaded, categories, bsdd_classes,
                   prompt, llm_candidates, mappings, output>>
    /\ UNCHANGED <<twinVars, buildVars, translateVars, sampleVars, scoreVars>>

\* validation_results.json is written
ValidateWrite ==
    /\ prog = "validate" /\ pc = "output"
    /\ output' = TRUE
    /\ pc' = "done"
    /\ UNCHANGED <<prog, endpoint, api_key, loaded, categories, bsdd_classes, i,
                   prompt, llm_candidates, response, mappings, llm_predictions,
                   outcome, events>>
    /\ UNCHANGED <<twinVars, buildVars, translateVars, sampleVars, scoreVars>>

----------------------------------------------------------------------------

Next ==
    \/ Configure
    \/ LoadTaxonomy
    \/ LoadTaxonomyFails
    \/ FetchEntries
    \/ StartCall
    \/ FinishCall
    \/ Delay
    \/ WriteOutputs
    \/ ValidateConfigure
    \/ ValidateLoad
    \/ AzureStartCall
    \/ AzureFinishCall
    \/ ValidateWrite

Spec == Init /\ [][Next]_vars

----------------------------------------------------------------------------
(* Properties of the alignment run *)

\* the banding table: c >= 0.90 exact, >= 0.70 close, >= 0.50 related, else none
Band(c) ==
    IF c >= 90 THEN "exactMatch"
    ELSE IF c >= 70 THEN "closeMatch"
    ELSE IF c >= 50 THEN "relatedMatch"
    ELSE "noMatch"

Range(s) == {s[k] : k \in 1..Len(s)}

\* the response is a JSON object carrying the fields create_mapping reads
Complete(resp) ==
    /\ resp.kind = "json"
    /\ {"category_id", "confidence", "reasoning"} \subseteq resp.keys
    /\ resp.conf_ok

\* a step in which the matcher call of the alignment run ends
CallEnds == prog = "map" /\ pc = "inflight" /\ pc' # "inflight"

\* C1: every Mapping of the mapping set has the match_type the banding table
\* gives for its confidence_score, whatever label the response proposed.
C1_MatchTypeIsBand ==
    prog = "map" =>
        \A k \in 1..Len(mappings) :
            mappings[k].match_type = Band(mappings[k].confidence_score)

\* C2: no Mapping selects a category that was not among the (at most 10)
\* candidates listed in the prompt.
C2_SelectedAmongCandidates ==
    prog = "map" =>
        \A k \in 1..Len(mappings) :
            mappings[k].oekobaudat_category.id \in Ids(prompt)

\* C3: a complete response selecting one of the candidates with confidence
\* below 0.50 is appended as a Mapping that keeps the category, the confidence
\* and the reasoning, with match_type noMatch.
C3_LowConfidenceRecorded ==
    [][(/\ CallEnds
        /\ Complete(response')
        /\ response'.category_id \in Ids(prompt)
        /\ response'.confidence < 50)
       => /\ Len(mappings') = Len(mappings) + 1
          /\ SubSeq(mappings', 1, Len(mappings)) = mappings
          /\ LET m == mappings'[Len(mappings')]
             IN  /\ m.bsdd_class = bsdd_classes[i]
                 /\ m.oekobaudat_category \in Range(prompt)
                 /\ m.oekobaudat_category.id = response'.category_id
                 /\ m.confidence_score = response'.confidence
                 /\ m.reasoning = response'.reasoning
                 /\ m.match_type = "noMatch"]_vars

C3_Witness ==
    /\ prog = "map" /\ pc \in {"sleep", "output"}
    /\ Complete(response)
    /\ response.category_id \in Ids(prompt)
    /\ response.confidence < 50
    /\ response.match_type = "exactMatch"
    /\ Len(mappings) > 0
    /\ mappings[Len(mappings)].match_type = "noMatch"
    /\ mappings[Len(mappings)].confidence_score = response.confidence

\* the matcher failed: the call raised, the response is empty, is no JSON
\* object, lacks a field that is read, or names no category of the taxonomy
MatcherFailed(resp, cats) ==
    \/ resp.kind \in {"exception", "empty", "badjson", "nonobject"}
    \/ /\ resp.kind = "json"
       /\ \/ {"category_id", "confidence", "reasoning"} \ resp.keys # {}
          \/ ~resp.conf_ok
          \/ resp.category_id \notin Ids(cats)

C4_EveryEntryProcessed ==
    (prog = "map" /\ pc \in {"output", "done"}) => Len(outcome) = Len(bsdd_classes)

C4_FailureSkips ==
    [][(CallEnds /\ MatcherFailed(response', categories))
       => /\ mappings' = mappings
          /\ bsdd_classes' = bsdd_classes
          /\ IF i < Len(bsdd_classes)
             THEN pc' = "sleep" /\ i' = i
             ELSE pc' = "output"]_vars

\* C4: when the matcher fails for an entry nothing is appended, the mapping set
\* is unchanged, and the loop goes on until every entry has been processed.
C4_SkipAndContinue == []C4_EveryEntryProcessed /\ C4_FailureSkips

C4_Witness ==
    /\ prog = "map" /\ pc = "done"
    /\ outcome = <<FALSE, TRUE>>
    /\ Len(mappings) = 1
    /\ mappings[1].bsdd_class = bsdd_classes[2]

RECURSIVE SucceededUpTo(_)
\* the entries among the first k whose matcher call yielded a Mapping
SucceededUpTo(k) ==
    IF k = 0 THEN <<>>
    ELSE IF outcome[k] THEN Append(SucceededUpTo(k - 1), bsdd_classes[k])
    ELSE SucceededUpTo(k - 1)

C5_OnePerSucceededEntry ==
    prog = "map" =>
        [k \in 1..Len(mappings) |-> mappings[k].bsdd_class] = SucceededUpTo(Len(outcome))

\* C5: the mapping set holds exactly one Mapping per processed entry whose
\* matcher call succeeded, in entry order, and only ever grows at its end.
C5_AppendOnly ==
    []C5_OnePerSucceededEntry /\ [][IsPrefix(mappings, mappings')]_vars

C5_Witness ==
    /\ prog = "map" /\ pc = "done"
    /\ Len(mappings) = 2
    /\ mappings[1].bsdd_class.code = 1
    /\ mappings[2].bsdd_class.code = 2

\* C6: find_best_match_llm yields no result, and the harness records no
\* prediction, when the response's category_id is not one of the candidates
\* it was given.
C6_AzureRejectsUnknownId ==
    [][(/\ prog = "validate" /\ pc = "inflight" /\ pc' # "inflight"
        /\ response'.kind \in {"json", "fenced"}
        /\ response'.category_id \notin Ids(llm_candidates))
       => llm_predictions' = llm_predictions]_vars

\* C7: every Mapping of the mapping set has a confidence_score in [0.0, 1.0].
C7_ConfidenceInRange ==
    prog = "map" =>
        \A k \in 1..Len(mappings) :
            /\ mappings[k].confidence_score >= 0
            /\ mappings[k].confidence_score <= 100

\* C8: whichever matcher is invoked, and however long the category list it is
\* passed, the prompt lists at most 10 candidates.
C8_AtMostTenCandidates == Len(prompt) <= 10

C8_Witness ==
    /\ prog = "validate" /\ pc = "inflight"
    /\ Len(llm_candidates) > 10
    /\ Len(prompt) = 10

\* the trace of a run over n entries: call, return, delay, call, return, ...,
\* ending with the return of entry n
Expected(n) ==
    [p \in 1..(3 * n - 1) |->
        LET k == ((p - 1) \div 3) + 1
            r == (p - 1) % 3
        IN  Event(IF r = 0 THEN "call" ELSE IF r = 1 THEN "return" ELSE "sleep", k)]

\* C9: calls are made one at a time in input order, one delay separates every
\* two consecutive entries (also after a failed one), and none follows the last.
C9_SequentialWithDelay ==
    prog = "map" =>
        /\ IsPrefix(events, Expected(Len(bsdd_classes)))
        /\ pc \in {"output", "done"} => events = Expected(Len(bsdd_classes))

C9_Witness ==
    /\ prog = "map" /\ pc = "done"
    /\ Len(bsdd_classes) = 2
    /\ outcome[1] = FALSE
    /\ Len(events) = 5
    /\ events[3] = Event("sleep", 1)

\* C10: with the endpoint or the API key missing the alignment run stops before
\* anything is loaded: no matcher call, no entry processed, no output.
C10_MissingConfigAborts ==
    (prog = "map" /\ (endpoint # "set" \/ api_key # "set")) =>
        /\ pc \in {"config", "aborted"}
        /\ ~loaded
        /\ categories = <<>>
        /\ bsdd_classes = <<>>
        /\ events = <<>>
        /\ outcome = <<>>
        /\ mappings = <<>>
        /\ ~output

C10_Witness ==
    /\ prog = "map" /\ pc = "aborted"
    /\ endpoint = "set"
    /\ api_key = "unset"

----------------------------------------------------------------------------
(* Progress of the alignment run *)

\* the steps the program takes by itself; the end of an LLM call is not
\* among them: neither the client (AzureOpenAI(...)) nor the request
\* (chat.completions.create(...)) is given a timeout
ProgramSteps ==
    \/ Configure \/ LoadTaxonomy \/ LoadTaxonomyFails \/ FetchEntries
    \/ StartCall \/ Delay \/ WriteOutputs
    \/ ValidateConfigure \/ ValidateLoad \/ AzureStartCall \/ ValidateWrite

SpecLive == Spec /\ WF_vars(ProgramSteps)

----------------------------------------------------------------------------
(* Two alignment runs (the loop of 02 main()) over the same taxonomy and the
   same entries, with a deterministic matcher: stub[k] is its response for
   entry k *)

StubResponses ==
    {Failure("exception"), Failure("badjson")}
    \cup {Json("json", AllKeys, id, c, TRUE, "closeMatch") :
            id \in SelectableIds, c \in {30, 95}}

InitTwin ==
    /\ prog = "twin"
    /\ pc = "call"
    /\ endpoint = "set" /\ api_key = "set"
    /\ loaded = TRUE
    /\ categories \in Taxonomies
    /\ \E n \in 1..MaxEntries :
          /\ bsdd_classes = EntryList(n)
          /\ stub \in [1..n -> StubResponses]
    /\ i = 1
    /\ run = 1
    /\ first = <<>>
    /\ prompt = <<>>
    /\ llm_candidates = <<>>
    /\ response = NoResponse
    /\ mappings = <<>>
    /\ llm_predictions = <<>>
    /\ outcome = <<>>
    /\ events = <<>>
    /\ output = FALSE
    /\ IdleBuild /\ IdleTranslate /\ IdleSample /\ IdleScore

\* one iteration of the loop: create_mapping, append, next entry
TwinEntry ==
    /\ prog = "twin" /\ pc = "call"
    /\ LET result == create_mapping(bsdd_classes[i], categories, stub[i])
       IN  /\ response' = stub[i]
           /\ mappings' = AppendResult(mappings, result)
           /\ outcome' = Append(outcome, result # <<>>)
    /\ prompt' = create_prompt(categories)
    /\ IF i < Len(bsdd_classes) THEN pc' = "call" /\ i' = i + 1
                                ELSE pc' = "output" /\ i' = i
    /\ UNCHANGED <<prog, endpoint, api_key, loaded, categories, bsdd_classes,
                   llm_candidates, llm_predictions, events, output>>
    /\ UNCHANGED <<twinVars, buildVars, translateVars, sampleVars, scoreVars>>

\* the first run is over: its mapping set is kept, the second run starts
TwinSecondRun ==
    /\ prog = "twin" /\ pc = "output" /\ run = 1
    /\ first' = mappings
    /\ run' = 2
    /\ mappings' = <<>>
    /\ outcome' = <<>>
    /\ i' = 1
    /\ pc' = "call"
    /\ UNCHANGED <<prog, endpoint, api_key, loaded, categories, bsdd_classes,
                   prompt, llm_candidates, response, llm_predictions, events,
                   output, stub>>
    /\ UNCHANGED <<buildVars, translateVars, sampleVars, scoreVars>>

\* the second run is over
TwinEnd ==
    /\ prog = "twin" /\ pc = "output" /\ run = 2
    /\ pc' = "done"
    /\ UNCHANGED <<prog, endpoint, api_key, loaded, categories, bsdd_classes, i,
                   prompt, llm_candidates, response, mappings, llm_predictions,
                   outcome, events, output>>
    /\ UNCHANGED <<twinVars, buildVars, translateVars, sampleVars, scoreVars>>

NextTwin == TwinEntry \/ TwinSecondRun \/ TwinEnd

SpecTwin == InitTwin /\ [][NextTwin]_vars

----------------------------------------------------------------------------
(* 01_build_oekobaudat_rdf.py : AutoTranslator

   A text is a sequence of characters; "a" and "b" stand for letters, " " for
   whitespace.  The translation tables map texts to texts. *)

MaxLen == 3

Chars == {"a", "b", " "}

RECURSIVE TextsUpTo(_)
TextsUpTo(n) ==
    IF n = 0 THEN {<<>>}
    ELSE LET shorter == TextsUpTo(n - 1)
         IN  shorter \cup {Append(t, c) : t \in {u \in shorter : Len(u) = n - 1}, c \in Chars}

Texts == TextsUpTo(MaxLen)

\* TRANSLATION_DICT: whole phrases ("Sand und Kies") and single words ("und")
TRANSLATION_DICT ==
    [t \in {<<"a">>, <<"a", " ", "b">>} |->
        IF t = <<"a">> THEN <<"A">> ELSE <<"A", "&", "B">>]

\* the contents a cache file may have
CacheKeys == {<<"a">>, <<"b">>, <<"b", " ", "a">>}

CacheValues == {<<"x">>, <<"y", " ", "z">>}

Caches == UNION {[K -> CacheValues] : K \in SUBSET CacheKeys}

\* str.split(): the whitespace-delimited words, scanned left to right;
\* word is the word being read
RECURSIVE SplitFrom(_, _, _)
SplitFrom(t, p, word) ==
    IF p > Len(t) THEN (IF word = <<>> THEN <<>> ELSE <<word>>)
    ELSE IF t[p] = " "
         THEN (IF word = <<>> THEN <<>> ELSE <<word>>) \o SplitFrom(t, p + 1, <<>>)
         ELSE SplitFrom(t, p + 1, Append(word, t[p]))

Split(t) == SplitFrom(t, 1, <<>>)

\* sep.join(parts)
RECURSIVE Join(_, _)
Join(parts, sep) ==
    IF parts = <<>> THEN <<>>
    ELSE IF Len(parts) = 1 THEN parts[1]
    ELSE parts[1] \o sep \o Join(Tail(parts), sep)

\* the word-by-word branch of translate, for one word
TranslateWord(c, word) ==
    IF word \in DOMAIN c THEN c[word]
    ELSE IF word \in DOMAIN TRANSLATION_DICT THEN TRANSLATION_DICT[word]
    ELSE word

\* variant: the built-in dictionary is consulted before the cache
translate_DictFirst(c, german_text) ==
    IF german_text \in DOMAIN TRANSLATION_DICT THEN TRANSLATION_DICT[german_text]
    ELSE IF german_text \in DOMAIN c THEN c[german_text]
    ELSE LET words == Split(german_text)
         IN  Join([k \in 1..Len(words) |-> TranslateWord(c, words[k])], <<" ">>)

\* AutoTranslator.translate with self.cache = c
translate(c, german_text) ==
    IF german_text \in DOMAIN c THEN c[german_text]
    ELSE IF german_text \in DOMAIN TRANSLATION_DICT THEN TRANSLATION_DICT[german_text]
    ELSE LET words == Split(german_text)
         IN  Join([k \in 1..Len(words) |-> TranslateWord(c, words[k])], <<" ">>)

\* variant: translate remembers what it returned
CacheAfterTranslate_Memoises(c, german_text) ==
    [t \in DOMAIN c \cup {german_text} |-> translate(c, german_text)]

\* self.cache after translate(german_text): translate only reads it
CacheAfterTranslate(c, german_text) == c

\* str.split('/'): the parts between separators, empty ones included
RECURSIVE SplitSepFrom(_, _, _)
SplitSepFrom(t, p, part) ==
    IF p > Len(t) THEN <<part>>
    ELSE IF t[p] = "/" THEN <<part>> \o SplitSepFrom(t, p + 1, <<>>)
    ELSE SplitSepFrom(t, p + 1, Append(part, t[p]))

SplitPath(t) == SplitSepFrom(t, 1, <<>>)

\* the dataclass OekobaudatCategory of the builder; an Optional[str] is
\* <<>> for None and <<s>> for the string s
BuilderCategory(id, name_de, parent_id, level, full_path_de) ==
    [id |-> id, name_de |-> name_de, name_en |-> <<>>, parent_id |-> parent_id,
     children_ids |-> <<>>, level |-> level,
     full_path_de |-> full_path_de, full_path_en |-> <<>>]

\* [self.translate(part) for part in path_parts], with the cache it leaves
RECURSIVE TranslateParts(_, _)
TranslateParts(c, parts) ==
    IF parts = <<>> THEN [out |-> <<>>, cache |-> c]
    ELSE LET rest == TranslateParts(CacheAfterTranslate(c, Head(parts)), Tail(parts))
         IN  [out |-> <<translate(c, Head(parts))>> \o rest.out,
              cache |-> rest.cache]

\* variant: the path is translated as one text, not segment by segment
translate_category_WholePath(c, cat) ==
    [category |-> [cat EXCEPT !.name_en = <<translate(c, cat.name_de)>>,
                              !.full_path_en = <<translate(c, cat.full_path_de)>>],
     cache |-> CacheAfterTranslate(CacheAfterTranslate(c, cat.name_de), cat.full_path_de)]

\* AutoTranslator.translate_category: the category and self.cache afterwards
translate_category(c, cat) ==
    LET c1    == CacheAfterTranslate(c, cat.name_de)
        parts == TranslateParts(c1, SplitPath(cat.full_path_de))
    IN  [category |-> [cat EXCEPT !.name_en = <<translate(c, cat.name_de)>>,
                                  !.full_path_en = <<Join(parts.out, <<"/">>)>>],
         cache |-> parts.cache]

\* the variables of the mapping programs while another program runs
IdleAlign ==
    /\ endpoint = "set" /\ api_key = "set"
    /\ loaded = FALSE
    /\ categories = <<>> /\ bsdd_classes = <<>>
    /\ i = 0
    /\ prompt = <<>> /\ llm_candidates = <<>>
    /\ response = NoResponse
    /\ mappings = <<>> /\ llm_predictions = <<>>
    /\ outcome = <<>> /\ events = <<>>
    /\ output = FALSE

alignData == <<endpoint, api_key, loaded, categories, bsdd_classes, i, prompt,
               llm_candidates, response, mappings, llm_predictions, outcome,
               events, output>>

\* AutoTranslator(cache_path) is constructed: self.cache = {}
InitTranslate ==
    /\ prog = "translate"
    /\ pc = "load"
    /\ text \in Texts
    /\ cache = <<>>
    /\ translated = <<>>
    /\ \E parent \in {<<>>, <<"b">>, <<"b", " ", "a">>} :
          target = IF parent = <<>>
                     THEN BuilderCategory(<<"1">>, text, <<>>, 0, text)
                     ELSE BuilderCategory(<<"1">>, text, <<"2">>, 1, parent \o <<"/">> \o text)
    /\ IdleAlign /\ IdleTwin /\ IdleBuild /\ IdleSample /\ IdleScore

\* load_cache: json.load gives the file's table, or an exception is caught
\* and self.cache stays empty
LoadCache ==
    /\ prog = "translate" /\ pc = "load"
    /\ \/ cache' \in Caches
       \/ cache' = cache
    /\ pc' = "ready"
    /\ UNCHANGED <<prog, text, translated, target, alignData>>
    /\ UNCHANGED <<twinVars, buildVars, sampleVars, scoreVars>>

\* translator.translate(text)
Translate ==
    /\ prog = "translate" /\ pc = "ready"
    /\ translated' = <<translate(cache, text)>>
    /\ cache' = CacheAfterTranslate(cache, text)
    /\ pc' = "translated"
    /\ UNCHANGED <<prog, text, target, alignData>>
    /\ UNCHANGED <<twinVars, buildVars, sampleVars, scoreVars>>

\* translator.translate_category(category)
TranslateCategory ==
    /\ prog = "translate" /\ pc = "translated"
    /\ LET r == translate_category(cache, target)
       IN  /\ target' = r.category
           /\ cache' = r.cache
    /\ pc' = "done"
    /\ UNCHANGED <<prog, text, translated, alignData>>
    /\ UNCHANGED <<twinVars, buildVars, sampleVars, scoreVars>>

\* translator.translate_category(category) on the category it already translated
TranslateCategoryAgain ==
    /\ prog = "translate" /\ pc = "done"
    /\ LET r == translate_category(cache, target)
       IN  /\ target' = r.category
           /\ cache' = r.cache
    /\ pc' = "again"
    /\ UNCHANGED <<prog, text, translated, alignData>>
    /\ UNCHANGED <<twinVars, buildVars, sampleVars, scoreVars>>

NextTranslate == LoadCache \/ Translate \/ TranslateCategory \/ TranslateCategoryAgain

SpecTranslate == InitTranslate /\ [][NextTranslate]_vars

\* the whitespace-delimited tokens of a text: the maximal runs of
\* non-whitespace characters, left to right
Tokens(t) ==
    LET starts == {p \in 1..Len(t) : t[p] # " " /\ (p = 1 \/ t[p - 1] = " ")}
        EndOf(p) == CHOOSE q \in p..Len(t) :
                        /\ \A r \in p..q : t[r] # " "
                        /\ (q = Len(t) \/ t[q + 1] = " ")
        Nth(k) == CHOOSE p \in starts : Cardinality({s \in starts : s < p}) = k - 1
    IN  [k \in 1..Cardinality(starts) |-> SubSeq(t, Nth(k), EndOf(Nth(k)))]

\* what the resolution order prescribes for one token
Resolved(c, token) ==
    IF token \in DOMAIN c THEN c[token]
    ELSE IF token \in DOMAIN TRANSLATION_DICT THEN TRANSLATION_DICT[token]
    ELSE token

\* C15: translate returns the cache value when the whole label is a cache
\* key; otherwise the fallback-table value when the whole label is a fallback
\* key; otherwise the space-join of its whitespace-delimited tokens, each
\* replaced by its cache value, else its fallback value, else itself.
C15_ResolutionOrder ==
    (prog = "translate" /\ pc = "translated") =>
        translated =
            << IF text \in DOMAIN cache THEN cache[text]
               ELSE IF text \in DOMAIN TRANSLATION_DICT THEN TRANSLATION_DICT[text]
               ELSE LET toks == Tokens(text)
                    IN  Join([k \in 1..Len(toks) |-> Resolved(cache, toks[k])], <<" ">>) >>

\* a label that is a key of neither table is resolved token by token, each
\* token through the cache
C15_Witness ==
    /\ prog = "translate" /\ pc = "translated"
    /\ text = <<"b", " ", "b">>
    /\ <<"b">> \in DOMAIN cache
    /\ translated = <<cache[<<"b">>] \o <<" ">> \o cache[<<"b">>]>>

\* the tokens of text that are keys of neither table
UnknownTokens(c, t) ==
    {tok \in Range(Tokens(t)) : tok \notin DOMAIN c /\ tok \notin DOMAIN TRANSLATION_DICT}

----------------------------------------------------------------------------
(* 01_build_oekobaudat_rdf.py : OekobaudatRdfBuilder

   The source document is the pre-order list of its <category> elements, each
   with its id attribute (<<>> when the attribute is missing), its name and
   its nesting depth below the category container. *)

MaxNodes == 3

\* the (id, name) attributes the category elements of a source may carry
NodeKinds ==
    { << <<"1">>, <<"a">> >>,
      << <<"1">>, <<"a", " ", "b">> >>,
      << <<"2">>, <<"a", " ", "b">> >>,
      << <<"2">>, <<"a", "-", "b">> >>,
      << <<"2">>, <<>> >>,
      << <<"3">>, <<"a">> >>,
      << <<"3">>, <<"a", "/", "b">> >>,
      << <<>>,    <<"a">> >> }

\* nesting depths of n elements in document order
DepthSeqs(n) ==
    IF n = 0 THEN {<<>>}
    ELSE {d \in [1..n -> 0..(n - 1)] :
            d[1] = 0 /\ \A k \in 2..n : d[k] <= d[k - 1] + 1}

\* the document with category elements of the given depths and attributes
XmlDocument(d, ks) ==
    [kind  |-> "xml",
     nodes |-> [k \in 1..Len(d) |->
                  [id |-> ks[k][1], name |-> ks[k][2], depth |-> d[k]]]]

\* a file that is not XML, and an XML file without the Process container
OtherDocuments ==
    {[kind |-> "unparsable", nodes |-> <<>>],
     [kind |-> "nocontainer", nodes |-> <<>>]}

\* the element whose recursive call processes element k (0 for the container)
ParentNode(nodes, k) ==
    IF nodes[k].depth = 0 THEN 0
    ELSE CHOOSE j \in 1..(k - 1) :
            /\ nodes[j].depth = nodes[k].depth - 1
            /\ \A m \in (j + 1)..(k - 1) : nodes[m].depth >= nodes[k].depth

\* full_path_de of element k
RECURSIVE PathOf(_, _)
PathOf(nodes, k) ==
    LET parent_path == IF nodes[k].depth = 0 THEN <<>>
                       ELSE PathOf(nodes, ParentNode(nodes, k))
    IN  IF parent_path # <<>> THEN parent_path \o <<"/">> \o nodes[k].name
        ELSE nodes[k].name

\* variant: a category whose id is already stored is kept as it is
StoreCategory_KeepsFirst(idx, cat_obj) ==
    [key \in DOMAIN idx \cup {cat_obj.id} |->
        IF key \in DOMAIN idx THEN idx[key] ELSE cat_obj]

\* self.categories[cat_id] = cat_obj
StoreCategory(idx, cat_obj) ==
    [key \in DOMAIN idx \cup {cat_obj.id} |->
        IF key = cat_obj.id THEN cat_obj ELSE idx[key]]

\* self.categories after elements 1..k were processed
RECURSIVE ParseUpTo(_, _)
ParseUpTo(nodes, k) ==
    IF k = 0 THEN <<>>
    ELSE LET before    == ParseUpTo(nodes, k - 1)
             parent    == ParentNode(nodes, k)
             parent_id == IF parent = 0 THEN <<>> ELSE nodes[parent].id
             cat_obj   == BuilderCategory(nodes[k].id, nodes[k].name, parent_id,
                                          nodes[k].depth, PathOf(nodes, k))
             stored    == StoreCategory(before, cat_obj)
         IN  IF parent_id # <<>> /\ parent_id \in DOMAIN stored
             THEN [stored EXCEPT ![parent_id].children_ids = Append(@, nodes[k].id)]
             ELSE stored

\* parse_xml on a document ET.parse accepts
parse_xml(d) ==
    IF d.kind = "xml" THEN ParseUpTo(d.nodes, Len(d.nodes)) ELSE <<>>

\* the characters \w and [\s-] match, among those the labels are written in
WordChars == {"a", "b", "A", "B", "x", "y", "z", "_"}

SepChars == {" ", "-"}

\* re.sub(r'[\s-]+', '_', ...): every run of separators becomes one "_"
RECURSIVE CollapseFrom(_, _)
CollapseFrom(t, p) ==
    IF p > Len(t) THEN <<>>
    ELSE IF t[p] \in SepChars
         THEN (IF p > 1 /\ t[p - 1] \in SepChars THEN <<>> ELSE <<"_">>)
              \o CollapseFrom(t, p + 1)
         ELSE <<t[p]>> \o CollapseFrom(t, p + 1)

\* variant: the class name is the category's label, character for character
name_to_class_name_Verbatim(name_de) == name_de

\* _name_to_class_name: drop what is neither \w, \s nor "-", then collapse
name_to_class_name(name_de) ==
    LET Kept(c) == c \in WordChars \cup SepChars
    IN  CollapseFrom(SelectSeq(name_de, Kept), 1)

\* _define_custom_property: the triples every graph starts with
PropertyTriples ==
    {<<<<"okobaudatCategory">>, "rdf:type", <<"owl:ObjectProperty">>>>,
     <<<<"okobaudatCategory">>, "rdfs:label@en", <<"category reference">>>>,
     <<<<"okobaudatCategory">>, "rdfs:label@de", <<"Kategorie-Referenz">>>>,
     <<<<"okobaudatCategory">>, "rdfs:comment@en", <<"Links an OWL class to its category ID">>>>}

\* the triples add_category_to_graph(cat_id) adds; a node is named by its
\* class name, a category URI by the category id
add_category_to_graph(idx, cat_id) ==
    LET cat       == idx[cat_id]
        class_uri == name_to_class_name(cat.name_de)
    IN  {<<class_uri, "rdf:type", <<"owl:Class">>>>,
         <<class_uri, "rdfs:label@de", cat.name_de>>,
         <<class_uri, "rdfs:comment@de", cat.full_path_de>>,
         <<class_uri, "obd:okobaudatCategory", cat_id>>}
        \cup (IF cat.name_en \notin {<<>>, << <<>> >>}
              THEN {<<class_uri, "rdfs:label@en", cat.name_en[1]>>} ELSE {})
        \cup (IF cat.full_path_en \notin {<<>>, << <<>> >>}
              THEN {<<class_uri, "rdfs:comment@en", cat.full_path_en[1]>>} ELSE {})
        \cup (IF cat.parent_id # <<>> /\ cat.parent_id \in DOMAIN idx
              THEN {<<class_uri, "rdfs:subClassOf",
                      name_to_class_name(idx[cat.parent_id].name_de)>>}
              ELSE {})

\* the cache files the builder may find
BuildCaches == {<<>>} \cup [{<<"a">>} -> {<<"x">>}]

\* builder = OekobaudatRdfBuilder(XML_PATH)
InitBuild ==
    /\ prog = "build"
    /\ pc = "parse"
    /\ \/ doc \in OtherDocuments
       \/ \E n \in 0..MaxNodes : \E d \in DepthSeqs(n) : \E ks \in [1..n -> NodeKinds] :
             doc = XmlDocument(d, ks)
    /\ index = <<>>
    /\ graph = PropertyTriples
    /\ IdleAlign /\ IdleTwin /\ IdleTranslate /\ IdleSample /\ IdleScore

\* builder.parse_xml() returns
ParseXml ==
    /\ prog = "build" /\ pc = "parse"
    /\ doc.kind # "unparsable"
    /\ index' = parse_xml(doc)
    /\ pc' = "translate"
    /\ UNCHANGED <<prog, doc, graph, alignData>>
    /\ UNCHANGED <<twinVars, translateVars, sampleVars, scoreVars>>

\* ET.parse raises ParseError, which main does not catch
ParseXmlFails ==
    /\ prog = "build" /\ pc = "parse"
    /\ doc.kind = "unparsable"
    /\ pc' = "aborted"
    /\ UNCHANGED <<prog, doc, index, graph, alignData>>
    /\ UNCHANGED <<twinVars, translateVars, sampleVars, scoreVars>>

\* translator = AutoTranslator(CACHE_PATH); translate_category on every category
TranslateCategories ==
    /\ prog = "build" /\ pc = "translate"
    /\ \E c \in BuildCaches :
          /\ cache' = c
          /\ index' = [id \in DOMAIN index |-> translate_category(c, index[id]).category]
    /\ pc' = "graph"
    /\ UNCHANGED <<prog, doc, graph, text, translated, target, alignData>>
    /\ UNCHANGED <<twinVars, sampleVars, scoreVars>>

\* add_category_to_graph for every key of builder.categories
BuildGraph ==
    /\ prog = "build" /\ pc = "graph"
    /\ graph' = graph \cup UNION {add_category_to_graph(index, id) : id \in DOMAIN index}
    /\ pc' = "serialize"
    /\ UNCHANGED <<prog, doc, index, alignData>>
    /\ UNCHANGED <<twinVars, translateVars, sampleVars, scoreVars>>

\* builder.serialize and builder.export_for_translation
Serialize ==
    /\ prog = "build" /\ pc = "serialize"
    /\ output' = TRUE
    /\ pc' = "done"
    /\ UNCHANGED <<prog, doc, index, graph, endpoint, api_key, loaded, categories,
                   bsdd_classes, i, prompt, llm_candidates, response, mappings,
                   llm_predictions, outcome, events>>
    /\ UNCHANGED <<twinVars, translateVars, sampleVars, scoreVars>>

NextBuild ==
    ParseXml \/ ParseXmlFails \/ TranslateCategories \/ BuildGraph \/ Serialize

SpecBuild == InitBuild /\ [][NextBuild]_vars

\* the categories of the index
Cats == {index[id] : id \in DOMAIN index}

\* following parent_id from the category stored under id reaches a category
\* without parent in at most steps steps
RECURSIVE ReachesRoot(_, _)
ReachesRoot(id, steps) ==
    /\ id \in DOMAIN index
    /\ \/ index[id].parent_id = <<>>
       \/ steps > 0 /\ ReachesRoot(index[id].parent_id, steps - 1)

\* C13: after parse_xml the parent/child relation of the index is a forest:
\* parent links lead to a root within tree-height steps, every non-root has
\* its parent in the index, c is in children_ids of p exactly when c's
\* parent_id is p, and no identifier is listed twice.
C13_IndexIsForest ==
    (prog = "build" /\ pc \notin {"parse", "aborted"}) =>
        /\ \A id \in DOMAIN index : ReachesRoot(id, Cardinality(DOMAIN index))
        /\ \A c \in Cats : c.parent_id # <<>> => c.parent_id \in DOMAIN index
        /\ \A p \in DOMAIN index : \A c \in DOMAIN index :
              (c \in Range(index[p].children_ids)) <=>
                 (index[c].parent_id # <<>> /\ index[c].parent_id = p)
        /\ \A p \in DOMAIN index :
              /\ Range(index[p].children_ids) \subseteq DOMAIN index
              /\ Cardinality(Range(index[p].children_ids)) = Len(index[p].children_ids)

\* a source the ingestion is to refuse
Malformed(d) ==
    \/ d.kind \in {"unparsable", "nocontainer"}
    \/ \E k \in 1..Len(d.nodes) : d.nodes[k].id = <<>>

\* C14: on a malformed source (a category element without id, an unparsable
\* document, a document without the category container) ingestion fails and
\* the run aborts; the index never holds a category without identifier.
C14_MalformedSourceAborts ==
    (prog = "build" /\ pc # "parse") =>
        /\ Malformed(doc) => (pc = "aborted" /\ index = <<>>)
        /\ \A c \in Cats : c.id # <<>>

\* C20: after parse_xml every top-level category has level 0 and its label
\* as full_path_de; every other category has the level of the category
\* stored under its parent_id plus 1, and that category's full_path_de, "/"
\* and its own label as full_path_de; its parent is in the index.
C20_LevelAndPathFollowParent ==
    (prog = "build" /\ pc \notin {"parse", "aborted"}) =>
        \A c \in Cats :
            IF c.parent_id = <<>>
            THEN c.level = 0 /\ c.full_path_de = c.name_de
            ELSE /\ c.parent_id \in DOMAIN index
                 /\ c.level = index[c.parent_id].level + 1
                 /\ c.full_path_de =
                        index[c.parent_id].full_path_de \o <<"/">> \o c.name_de

\* the objects of the triples of graph with subject s and predicate p
Objects(s, p) == {t[3] : t \in {u \in graph : u[1] = s /\ u[2] = p}}

\* the (identifier, parent identifier) pairs read back from the graph: a class
\* node's category id, with the category id of each class it is a subclass of
ReadBack ==
    LET nodes == {t[1] : t \in {u \in graph : u[2] = "rdf:type" /\ u[3] = <<"owl:Class">>}}
    IN  UNION {UNION {IF Objects(s, "rdfs:subClassOf") = {}
                      THEN {<<id, <<>>>>}
                      ELSE {<<id, pid>> :
                              pid \in UNION {Objects(super, "obd:okobaudatCategory") :
                                               super \in Objects(s, "rdfs:subClassOf")}} :
                        id \in Objects(s, "obd:okobaudatCategory")} :
                 s \in nodes}

\* C19: the (identifier, parent identifier) pairs read back from the exported
\* graph are the (id, parent_id) pairs of the ingested categories, also when
\* two categories share a label.
C19_ExportKeepsPairs ==
    (prog = "build" /\ pc \in {"serialize", "done"}) =>
        ReadBack = {<<c.id, c.parent_id>> : c \in Cats}

----------------------------------------------------------------------------
(* 03_create_validation_sample.py : create_validation_sample

   Scores are in hundredths.  The matcher that scores the entries gives each
   entry a mapping with a confidence score, or none. *)

MaxScored == 4

MaxSample == 4

\* what matcher.create_mapping yields for an entry: <<>> for None, else the score
ScoreValues == {<<>>, <<30>>, <<50>>, <<80>>}

\* scored_classes: the entries that got a mapping, with its score
RECURSIVE ScoredClasses(_, _)
ScoredClasses(classes, scores) ==
    IF classes = <<>> THEN <<>>
    ELSE (IF Head(scores) = <<>> THEN <<>>
          ELSE <<[cls |-> Head(classes), score |-> Head(scores)[1]]>>)
         \o ScoredClasses(Tail(classes), Tail(scores))

\* [c for c, s in scored_classes if ...]
RECURSIVE ClassesOf(_)
ClassesOf(sc) ==
    IF sc = <<>> THEN <<>> ELSE <<Head(sc).cls>> \o ClassesOf(Tail(sc))

high_conf(sc) == LET Is(e) == e.score >= 80 IN ClassesOf(SelectSeq(sc, Is))

medium_conf(sc) ==
    LET Is(e) == 50 <= e.score /\ e.score < 80 IN ClassesOf(SelectSeq(sc, Is))

low_conf(sc) == LET Is(e) == e.score < 50 IN ClassesOf(SelectSeq(sc, Is))

\* variant: the high band gets a third of the sample, like the medium band
n_high_Third(sc, size) == MinOf({Len(high_conf(sc)), size \div 3})

n_high(sc, size) == MinOf({Len(high_conf(sc)), size \div 2})

n_medium(sc, size) == MinOf({Len(medium_conf(sc)), size \div 3})

n_low(sc, size) ==
    MinOf({Len(low_conf(sc)), size - n_high(sc, size) - n_medium(sc, size)})

\* random.sample(population, k): any k elements at distinct positions, in any order
RandomSample(population, k) ==
    {[j \in 1..k |-> population[f[j]]] :
        f \in {g \in [1..k -> 1..Len(population)] :
                 \A a, b \in 1..k : a # b => g[a] # g[b]}}

\* create_validation_sample is called with bsdd_classes and sample_size
InitSample ==
    /\ prog = "sample"
    /\ pc \in {"stratified", "simple"}
    /\ \E n \in 0..MaxScored : \E scores \in [1..n -> ScoreValues] :
          /\ bsdd_classes = EntryList(n)
          /\ scored = ScoredClasses(EntryList(n), scores)
    /\ sample_size \in 0..MaxSample
    /\ sample = <<>>
    /\ endpoint = "set" /\ api_key = "set"
    /\ loaded = FALSE
    /\ categories = <<>>
    /\ i = 0
    /\ prompt = <<>> /\ llm_candidates = <<>>
    /\ response = NoResponse
    /\ mappings = <<>> /\ llm_predictions = <<>>
    /\ outcome = <<>> /\ events = <<>>
    /\ output = FALSE
    /\ IdleTwin /\ IdleBuild /\ IdleTranslate /\ IdleScore

\* stratified=True: the three draws, concatenated
DrawStratified ==
    /\ prog = "sample" /\ pc = "stratified"
    /\ \E h \in RandomSample(high_conf(scored), n_high(scored, sample_size)) :
       \E m \in RandomSample(medium_conf(scored), n_medium(scored, sample_size)) :
       \E l \in RandomSample(low_conf(scored), n_low(scored, sample_size)) :
          sample' = h \o m \o l
    /\ pc' = "returned"
    /\ UNCHANGED <<prog, scored, sample_size, alignData>>
    /\ UNCHANGED <<twinVars, buildVars, translateVars, scoreVars>>

\* stratified=False: one draw from all entries
DrawSimple ==
    /\ prog = "sample" /\ pc = "simple"
    /\ sample' \in RandomSample(bsdd_classes, MinOf({sample_size, Len(bsdd_classes)}))
    /\ pc' = "returned simple"
    /\ UNCHANGED <<prog, scored, sample_size, alignData>>
    /\ UNCHANGED <<twinVars, buildVars, translateVars, scoreVars>>

NextSample == DrawStratified \/ DrawSimple

SpecSample == InitSample /\ [][NextSample]_vars

\* the entries of scored whose score satisfies a band, as the claim defines it
HighBand == {e.cls : e \in {x \in Range(scored) : x.score >= 80}}

MediumBand == {e.cls : e \in {x \in Range(scored) : x.score >= 50 /\ x.score < 80}}

LowBand == {e.cls : e \in {x \in Range(scored) : x.score < 50}}

Drawn(band) == Cardinality({j \in 1..Len(sample) : sample[j] \in band})

AtMost(a, b) == IF a <= b THEN a ELSE b

\* C17: stratified sampling of size n returns min(|high|, n/2) high entries,
\* min(|medium|, n/3) medium entries and min(|low|, n - high drawn - medium
\* drawn) low entries (integer division), no entry twice, the three parts one
\* after the other without overlap.
C17_StratifiedCounts ==
    (prog = "sample" /\ pc = "returned") =>
        /\ Drawn(HighBand) = AtMost(Cardinality(HighBand), sample_size \div 2)
        /\ Drawn(MediumBand) = AtMost(Cardinality(MediumBand), sample_size \div 3)
        /\ Drawn(LowBand) = AtMost(Cardinality(LowBand),
                                   sample_size - Drawn(HighBand) - Drawn(MediumBand))
        /\ Len(sample) = Drawn(HighBand) + Drawn(MediumBand) + Drawn(LowBand)
        /\ Cardinality(Range(sample)) = Len(sample)
        /\ \A j \in 1..Len(sample) :
              /\ j <= Drawn(HighBand) => sample[j] \in HighBand
              /\ (Drawn(HighBand) < j /\ j <= Drawn(HighBand) + Drawn(MediumBand))
                    => sample[j] \in MediumBand
              /\ Drawn(HighBand) + Drawn(MediumBand) < j => sample[j] \in LowBand

\* a sample of three with one entry of each band, the high band holding more
\* entries than its share
C17_Witness ==
    /\ prog = "sample" /\ pc = "returned"
    /\ sample_size = 3
    /\ Cardinality(HighBand) = 2 /\ Cardinality(MediumBand) = 1 /\ Cardinality(LowBand) = 1
    /\ Len(sample) = 3
    /\ Drawn(HighBand) = 1 /\ Drawn(MediumBand) = 1 /\ Drawn(LowBand) = 1

----------------------------------------------------------------------------
(* 03_validate_accuracy.py : evaluate_method

   The accuracy correct / total is kept as the pair <<correct, total>>; the
   value 0 returned for total = 0 is <<0, 1>>. *)

MaxTruth == 2

MaxPredictions == 2

\* the records of the validation file; correct_oekobaudat_id 0 is the empty
\* annotation ('' or null) of a record not yet annotated
ValidationData ==
    UNION {[1..n -> [code : {1, 2}, correct_oekobaudat_id : {0, 1, 2}]] : n \in 0..MaxTruth}

\* variant: every record of the file is returned
RECURSIVE load_validation_data_All(_)
load_validation_data_All(data) ==
    IF data = <<>> THEN <<>>
    ELSE <<Head(data)>> \o load_validation_data_All(Tail(data))

\* load_validation_data: annotated = [d for d in data if d.get('correct_oekobaudat_id')]
RECURSIVE load_validation_data(_)
load_validation_data(data) ==
    IF data = <<>> THEN <<>>
    ELSE (IF Head(data).correct_oekobaudat_id # 0 THEN <<Head(data)>> ELSE <<>>)
         \o load_validation_data(Tail(data))

\* the predictions of a method: entry code, selected category id, confidence
PredictionLists ==
    UNION {[1..n -> [code : {1, 2, 3}, oekobaudat_category_id : {1, 2},
                     confidence : {60, 90}]] : n \in 0..MaxPredictions}

\* gt_dict = {v['code']: v['correct_oekobaudat_id'] for v in ground_truth}:
\* a later record replaces an earlier one with the same code
gt_dict(gt) ==
    [c \in {gt[k].code : k \in 1..Len(gt)} |->
        LET last == CHOOSE k \in 1..Len(gt) :
                        gt[k].code = c /\ \A m \in (k + 1)..Len(gt) : gt[m].code # c
        IN  gt[last].correct_oekobaudat_id]

\* variant: a prediction without ground truth is recorded as an error too
RECURSIVE Tally_RecordsUnknown(_, _)
Tally_RecordsUnknown(preds, gt) ==
    IF preds = <<>> THEN [correct |-> 0, errors |-> <<>>]
    ELSE LET pred == preds[Len(preds)]
             rest == Tally_RecordsUnknown(SubSeq(preds, 1, Len(preds) - 1), gt)
             d    == gt_dict(gt)
         IN  IF pred.code \in DOMAIN d /\ pred.oekobaudat_category_id = d[pred.code]
             THEN [rest EXCEPT !.correct = @ + 1]
             ELSE [rest EXCEPT !.errors =
                      Append(@, [code |-> pred.code,
                                 predicted |-> pred.oekobaudat_category_id,
                                 actual |-> IF pred.code \in DOMAIN d
                                            THEN d[pred.code] ELSE 0,
                                 confidence |-> pred.confidence])]

\* the loop over predictions: the count of correct ones and the error list
RECURSIVE Tally(_, _)
Tally(preds, gt) ==
    IF preds = <<>> THEN [correct |-> 0, errors |-> <<>>]
    ELSE LET pred == preds[Len(preds)]
             rest == Tally(SubSeq(preds, 1, Len(preds) - 1), gt)
             d    == gt_dict(gt)
         IN  IF pred.code \notin DOMAIN d THEN rest
             ELSE IF pred.oekobaudat_category_id = d[pred.code]
                  THEN [rest EXCEPT !.correct = @ + 1]
                  ELSE [rest EXCEPT !.errors =
                           Append(@, [code |-> pred.code,
                                      predicted |-> pred.oekobaudat_category_id,
                                      actual |-> d[pred.code],
                                      confidence |-> pred.confidence])]

\* total = len(ground_truth)
Total(preds, gt) == Len(gt)

\* evaluate_method(method_name, predictions, ground_truth)
evaluate_method(preds, gt) ==
    LET t     == Tally(preds, gt)
        total == Total(preds, gt)
    IN  [accuracy |-> IF total > 0 THEN <<t.correct, total>> ELSE <<0, 1>>,
         errors   |-> t.errors]

\* the validation file is about to be read
InitScore ==
    /\ prog = "score"
    /\ pc = "load"
    /\ doc \in ValidationData
    /\ index = <<>> /\ graph = {}
    /\ ground_truth = <<>>
    /\ predictions \in PredictionLists
    /\ accuracy = <<>>
    /\ errors = <<>>
    /\ IdleAlign /\ IdleTwin /\ IdleTranslate /\ IdleSample

\* validation_data = load_validation_data(VALIDATION_FILE)
LoadValidationData ==
    /\ prog = "score" /\ pc = "load"
    /\ ground_truth' = load_validation_data(doc)
    /\ pc' = "evaluate"
    /\ UNCHANGED <<prog, predictions, accuracy, errors, alignData>>
    /\ UNCHANGED <<twinVars, buildVars, translateVars, sampleVars>>

Evaluate ==
    /\ prog = "score" /\ pc = "evaluate"
    /\ LET r == evaluate_method(predictions, ground_truth)
       IN  accuracy' = r.accuracy /\ errors' = r.errors
    /\ pc' = "evaluated"
    /\ UNCHANGED <<prog, ground_truth, predictions, alignData>>
    /\ UNCHANGED <<twinVars, buildVars, translateVars, sampleVars>>

NextScore == LoadValidationData \/ Evaluate

SpecScore == InitScore /\ [][NextScore]_vars

\* the predictions whose category id is the ground-truth id of their code
CorrectPredictions ==
    {j \in 1..Len(predictions) :
        /\ predictions[j].code \in DOMAIN gt_dict(ground_truth)
        /\ predictions[j].oekobaudat_category_id = gt_dict(ground_truth)[predictions[j].code]}

\* the ground-truth records whose code has a prediction
PredictedTruths ==
    {k \in 1..Len(ground_truth) :
        \E j \in 1..Len(predictions) : predictions[j].code = ground_truth[k].code}

\* C18: accuracy is the number of predictions whose category id equals the
\* ground-truth id of the same code, divided by the number of ground-truth
\* records whose code has a prediction (0 when there is none).
C18_AccuracyOverPredicted ==
    (prog = "score" /\ pc = "evaluated") =>
        IF PredictedTruths = {}
        THEN accuracy[1] = 0
        ELSE accuracy[1] * Cardinality(PredictedTruths)
                = Cardinality(CorrectPredictions) * accuracy[2]

----------------------------------------------------------------------------
(* Properties of translate_category *)

\* the "/"-separated segments of a path: the texts between separators, the
\* empty ones included
Segments(t) ==
    LET seps   == {p \in 1..Len(t) : t[p] = "/"}
        edges  == {0} \cup seps \cup {Len(t) + 1}
        Nth(k) == CHOOSE p \in edges : Cardinality({q \in edges : q < p}) = k - 1
    IN  [k \in 1..(Cardinality(seps) + 1) |-> SubSeq(t, Nth(k) + 1, Nth(k + 1) - 1)]

\* C21: translate_category sets name_en to translate(name_de) and
\* full_path_en to the "/"-join of the translated segments of full_path_de,
\* leaves the other fields as they are, and changes nothing when applied a
\* second time.
C21_TranslateCategoryFillsOnce ==
    /\ [][(prog = "translate" /\ pc = "translated" /\ pc' = "done") =>
            LET segs == Segments(target.full_path_de)
            IN  target' =
                  [target EXCEPT
                     !.name_en = <<translate(cache, target.name_de)>>,
                     !.full_path_en =
                        <<Join([k \in 1..Len(segs) |-> translate(cache, segs[k])],
                               <<"/">>)>>]]_vars
    /\ [][(prog = "translate" /\ pc = "done" /\ pc' = "again") => target' = target]_vars

\* a category below "b" was translated twice: its path has two segments, the
\* second one resolved through the built-in dictionary
C21_Witness ==
    /\ prog = "translate" /\ pc = "again"
    /\ target.full_path_de = <<"b", "/", "a">>
    /\ target.full_path_en = << <<"b", "/", "A">> >>
    /\ target.name_en = << <<"A">> >>
    /\ target.name_de = <<"a">> /\ target.level = 1

----------------------------------------------------------------------------
(* Properties of the taxonomy graph *)

\* the class nodes of the graph
ClassNodes == {t[1] : t \in {u \in graph : u[2] = "rdf:type" /\ u[3] = <<"owl:Class">>}}

\* the class nodes that carry a cross-reference to the category id
NodesOf(id) == {s \in ClassNodes : id \in Objects(s, "obd:okobaudatCategory")}

\* C22: after all categories are added, each category has its own class node
\* with exactly one cross-reference, to its own id; the node has a subclass
\* edge to its parent's class node exactly when the category has a parent,
\* and no class node is a subclass of itself.
C22_OneNodePerCategory ==
    (prog = "build" /\ pc \in {"serialize", "done"}) =>
        /\ \A c \in Cats :
              /\ Cardinality(NodesOf(c.id)) = 1
              /\ \A s \in NodesOf(c.id) :
                    /\ Objects(s, "obd:okobaudatCategory") = {c.id}
                    /\ Objects(s, "rdfs:subClassOf") =
                          (IF c.parent_id = <<>> THEN {} ELSE NodesOf(c.parent_id))
        /\ \A s \in ClassNodes : s \notin Objects(s, "rdfs:subClassOf")

----------------------------------------------------------------------------
(* Loading the external entries and writing the correspondence graph:
   utils/etim_local_loader.py, utils/bsdd_api_client.py and RdfGenerator.

   A URI is the sequence of the strings it is concatenated from; the empty
   string is <<>>. *)

MaxClasses == 2

Codes == <<"EC001", "EC002", "EC003">>

\* the namespace of the dictionary the classes belong to
DictionaryUri == "https://identifier.buildingsmart.org/uri/etim/etim-10.1"

\* the class records of the source: with or without a URI of their own
ClassData(k, has_uri, status) ==
    [Code |-> Codes[k], Name |-> Codes[k],
     Uri |-> IF has_uri THEN <<"urn:class:", Codes[k]>> ELSE <<>>,
     Status |-> status]

\* an entry as the loaders build it
LoadedClass(uri, code, name, domain_namespace) ==
    [uri |-> uri, code |-> code, name |-> name, domain_namespace |-> domain_namespace]

\* variant: the local loader keeps the URI it read, also when it is empty
LocalClass_KeepsUri(cls_data, domain_namespace) ==
    LoadedClass(cls_data.Uri, cls_data.Code, cls_data.Name, domain_namespace)

\* LocalEtimLoader.load, one class: the URI is generated if not present
LocalClass(cls_data, domain_namespace) ==
    LoadedClass(IF cls_data.Uri = <<>>
                THEN <<domain_namespace, "/class/", cls_data.Code>>
                ELSE cls_data.Uri,
                cls_data.Code, cls_data.Name, domain_namespace)

\* LocalEtimLoader.load: the active classes, in order
RECURSIVE LocalLoad(_, _)
LocalLoad(classes, domain_namespace) ==
    IF classes = <<>> THEN <<>>
    ELSE (IF Head(classes).Status # "Active" THEN <<>>
          ELSE <<LocalClass(Head(classes), domain_namespace)>>)
         \o LocalLoad(Tail(classes), domain_namespace)

\* BsddApiClient.get_etim_classes: every class, with the URI the API gave
ApiLoad(classes, dict_uri) ==
    [k \in 1..Len(classes) |->
        LoadedClass(classes[k].Uri, classes[k].Code, classes[k].Name, dict_uri)]

\* RdfGenerator.BSDD
BSDD == "https://identifier.buildingsmart.org/uri/"

\* bsdd_uri in add_mapping
bsdd_uri(cls) ==
    IF cls.uri # <<>> THEN cls.uri
    ELSE <<BSDD, cls.domain_namespace, "/class/", cls.code>>

\* OekobaudatCategory.uri, set by the parser
oeko_uri(cat) == <<"https://oekobaudat.de/category/", cat.id>>

\* the triples add_mapping(mapping) adds
add_mapping(m) ==
    LET s == bsdd_uri(m.bsdd_class)
        o == oeko_uri(m.oekobaudat_category)
    IN  {<<s, "rdf:type", <<"skos:Concept">>>>,
         <<s, "skos:prefLabel", <<m.bsdd_class.name>>>>,
         <<s, "skos:notation", <<m.bsdd_class.code>>>>}
        \cup (IF m.match_type = "exactMatch" THEN {<<s, "skos:exactMatch", o>>}
              ELSE IF m.match_type = "closeMatch" THEN {<<s, "skos:closeMatch", o>>}
              ELSE IF m.match_type = "relatedMatch" THEN {<<s, "skos:related", o>>}
              ELSE IF m.match_type = "noMatch"
                   THEN {<<s, "bsdd:noMatch", o>>,
                         <<s, "rdfs:comment",
                           <<"No good match found. Best candidate: ",
                             m.oekobaudat_category.name_de>>>>}
              ELSE {})

\* what the LLM call yields for the entries of this run
RdfResponses ==
    {Failure("exception")}
    \cup {Json("json", AllKeys, 1, 95, TRUE, mt) : mt \in MatchTypes}
    \cup {Json("json", AllKeys \ {"match_type"}, 2, 95, TRUE, ""),
          Json("json", AllKeys, 2, 30, TRUE, "closeMatch")}

\* the loop of main over bsdd_classes: the mappings after entries 1..k
RECURSIVE MapEntries(_, _, _, _)
MapEntries(classes, cats, rs, k) ==
    IF k = 0 THEN <<>>
    ELSE AppendResult(MapEntries(classes, cats, rs, k - 1),
                      create_mapping(classes[k], cats, rs[k]))

\* the class data of a dictionary is about to be read by one of the loaders
InitRdf ==
    /\ prog = "rdf"
    /\ pc = "load"
    /\ \E n \in 0..MaxClasses :
       \E has_uri \in [1..n -> BOOLEAN] :
       \E status \in [1..n -> {"Active", "Retired"}] :
       \E loader \in {"local", "api"} :
          /\ loader = "api" => \A k \in 1..n : status[k] = "Active"
          /\ doc = [loader  |-> loader,
                    classes |-> [k \in 1..n |-> ClassData(k, has_uri[k], status[k])]]
    /\ index = <<>>
    /\ graph = {}
    /\ endpoint = "set" /\ api_key = "set"
    /\ loaded = TRUE
    /\ categories = CatList(3)
    /\ bsdd_classes = <<>>
    /\ i = 0
    /\ prompt = <<>> /\ llm_candidates = <<>>
    /\ response = NoResponse
    /\ mappings = <<>> /\ llm_predictions = <<>>
    /\ outcome = <<>> /\ events = <<>>
    /\ output = FALSE
    /\ IdleTwin /\ IdleTranslate /\ IdleSample /\ IdleScore

\* LocalEtimLoader.load or BsddApiClient.get_etim_classes returns; main stops
\* when there is no class
LoadClasses ==
    /\ prog = "rdf" /\ pc = "load"
    /\ bsdd_classes' = IF doc.loader = "local"
                       THEN LocalLoad(doc.classes, DictionaryUri)
                       ELSE ApiLoad(doc.classes, DictionaryUri)
    /\ pc' = IF bsdd_classes' = <<>> THEN "aborted" ELSE "match"
    /\ UNCHANGED <<prog, doc, index, graph, endpoint, api_key, loaded, categories, i,
                   prompt, llm_candidates, response, mappings, llm_predictions,
                   outcome, events, output>>
    /\ UNCHANGED <<twinVars, translateVars, sampleVars, scoreVars>>

\* [3/4] the matching loop has run over all entries
MatchEntries ==
    /\ prog = "rdf" /\ pc = "match"
    /\ \E rs \in [1..Len(bsdd_classes) -> RdfResponses] :
          mappings' = MapEntries(bsdd_classes, categories, rs, Len(bsdd_classes))
    /\ pc' = "output"
    /\ UNCHANGED <<prog, doc, index, graph, endpoint, api_key, loaded, categories,
                   bsdd_classes, i, prompt, llm_candidates, response,
                   llm_predictions, outcome, events, output>>
    /\ UNCHANGED <<twinVars, translateVars, sampleVars, scoreVars>>

\* variant: a mapping without a recognised match type is dropped when written
MappingsAfterAdd_DropsUnlinked(ms) ==
    LET Linked(m) == m.match_type \in {"exactMatch", "closeMatch", "relatedMatch", "noMatch"}
    IN  SelectSeq(ms, Linked)

\* the mapping list after the add_mapping loop: add_mapping only reads it
MappingsAfterAdd(ms) == ms

\* rdf_gen = RdfGenerator(); add_mapping for every mapping
AddMappings ==
    /\ prog = "rdf" /\ pc = "output"
    /\ graph' = graph \cup UNION {add_mapping(mappings[k]) : k \in 1..Len(mappings)}
    /\ mappings' = MappingsAfterAdd(mappings)
    /\ pc' = "serialize"
    /\ UNCHANGED <<prog, doc, index, endpoint, api_key, loaded, categories,
                   bsdd_classes, i, prompt, llm_candidates, response,
                   llm_predictions, outcome, events, output>>
    /\ UNCHANGED <<twinVars, translateVars, sampleVars, scoreVars>>

\* rdf_gen.serialize and the JSON report
SerializeRdf ==
    /\ prog = "rdf" /\ pc = "serialize"
    /\ output' = TRUE
    /\ pc' = "done"
    /\ UNCHANGED <<prog, doc, index, graph, endpoint, api_key, loaded, categories,
                   bsdd_classes, i, prompt, llm_candidates, response, mappings,
                   llm_predictions, outcome, events>>
    /\ UNCHANGED <<twinVars, translateVars, sampleVars, scoreVars>>

NextRdf == LoadClasses \/ MatchEntries \/ AddMappings \/ SerializeRdf

SpecRdf == InitRdf /\ [][NextRdf]_vars

\* the predicate add_mapping is to use for a match type
LinkPredicates ==
    {"skos:exactMatch", "skos:closeMatch", "skos:related", "bsdd:noMatch"}

\* the links from the node of an entry to the node of a category
Links(m) ==
    {t \in graph : /\ t[1] = bsdd_uri(m.bsdd_class)
                   /\ t[2] \in LinkPredicates
                   /\ t[3] = oeko_uri(m.oekobaudat_category)}

\* C23: for every Mapping of the mapping set add_mapping adds exactly one
\* link from the entry's node to the category's node, with the predicate of
\* the mapping's match type, and the diagnostic comment exactly when the
\* match type is noMatch; no Mapping is left without a link.
C23_EveryMappingLinked ==
    (prog = "rdf" /\ pc \in {"serialize", "done"}) =>
        \A k \in 1..Len(mappings) :
            LET m == mappings[k]
            IN  /\ Cardinality(Links(m)) = 1
                /\ \A t \in Links(m) :
                      t[2] = (CASE m.match_type = "exactMatch" -> "skos:exactMatch"
                                [] m.match_type = "closeMatch" -> "skos:closeMatch"
                                [] m.match_type = "relatedMatch" -> "skos:related"
                                [] OTHER -> "bsdd:noMatch")
                /\ (m.match_type = "noMatch") <=>
                      (\E t \in graph : t[1] = bsdd_uri(m.bsdd_class) /\ t[2] = "rdfs:comment")

\* the class data a loaded entry was made from
DataOf(cls) == CHOOSE d \in Range(doc.classes) : d.Code = cls.code

\* {namespace}/class/{code}
DerivedUri(cls) == <<cls.domain_namespace, "/class/", cls.code>>

\* C25: an entry without a URI of its own gets the URI {namespace}/class/{code},
\* in the loaded entry (LocalEtimLoader.load, BsddApiClient.get_etim_classes)
\* and as the entry's node in the correspondence graph (add_mapping).
C25_DerivedUriEverywhere ==
    /\ (prog = "rdf" /\ pc \notin {"load"}) =>
          \A k \in 1..Len(bsdd_classes) :
              DataOf(bsdd_classes[k]).Uri = <<>> =>
                  bsdd_classes[k].uri = DerivedUri(bsdd_classes[k])
    /\ (prog = "rdf" /\ pc \in {"serialize", "done"}) =>
          \A k \in 1..Len(mappings) :
              DataOf(mappings[k].bsdd_class).Uri = <<>> =>
                  \E t \in graph : /\ t[1] = DerivedUri(mappings[k].bsdd_class)
                                   /\ t[2] = "skos:notation"
                                   /\ t[3] = <<mappings[k].bsdd_class.code>>

-----------------------------------------------------------------------------
(* The two graph builders side by side *)

\* builder.build_complete_graph(), on a fresh builder or after main's steps:
\* an empty index is ingested first, then every category is added
BuildCompleteGraph ==
    /\ prog = "build" /\ pc \in {"parse", "graph"}
    /\ doc.kind # "unparsable"
    /\ index' = IF DOMAIN index = {} THEN parse_xml(doc) ELSE index
    /\ graph' = graph \cup UNION {add_category_to_graph(index', id) : id \in DOMAIN index'}
    /\ pc' = "serialize"
    /\ UNCHANGED <<prog, doc, alignData>>
    /\ UNCHANGED <<twinVars, translateVars, sampleVars, scoreVars>>

NextGraphs == NextBuild \/ BuildCompleteGraph \/ NextRdf

SpecGraphs == (InitBuild \/ InitRdf) /\ [][NextGraphs]_vars

\* a step in which the taxonomy graph is built
BuildsTaxonomyGraph == prog = "build" /\ pc # "serialize" /\ pc' = "serialize"

\* a step in which the correspondence graph is built
BuildsCorrespondenceGraph == prog = "rdf" /\ pc = "output" /\ pc' = "serialize"

\* C24 as stated: the graph builders leave the category index and the
\* mapping set as they were; only the graph changes.
C24_BuildersNeverTouchData ==
    [][/\ BuildsTaxonomyGraph => index' = index
       /\ BuildsCorrespondenceGraph => mappings' = mappings]_vars

\* C24: add_category_to_graph and add_mapping only add triples; the index
\* and the mapping set stay as they were, except that build_complete_graph
\* on an empty index ingests the source document first.
C24_BuildersProjectOrIngest ==
    [][/\ BuildsTaxonomyGraph =>
            /\ index' = IF DOMAIN index = {} THEN parse_xml(doc) ELSE index
            /\ graph \subseteq graph'
            /\ doc' = doc
       /\ BuildsCorrespondenceGraph =>
            /\ mappings' = mappings
            /\ graph \subseteq graph'
            /\ bsdd_classes' = bsdd_classes /\ categories' = categories]_vars

\* build_complete_graph has ingested a source on its own and built the graph
C24_Witness ==
    /\ prog = "build" /\ pc = "serialize"
    /\ DOMAIN index # {}
    /\ \A id \in DOMAIN index : index[id].name_en = <<>>
    /\ graph # PropertyTriples

-----------------------------------------------------------------------------
(* Properties of the error list of evaluate_method *)

\* the prediction has a ground-truth record and selects another category
Disagrees(pred) ==
    /\ pred.code \in DOMAIN gt_dict(ground_truth)
    /\ pred.oekobaudat_category_id # gt_dict(ground_truth)[pred.code]

\* the error entry of a disagreeing prediction
ErrorEntry(pred) ==
    [code |-> pred.code, predicted |-> pred.oekobaudat_category_id,
     actual |-> gt_dict(ground_truth)[pred.code], confidence |-> pred.confidence]

\* the number of correct predictions evaluate_method counted
Correct == IF Len(ground_truth) > 0 THEN accuracy[1] ELSE 0

\* C26: evaluate_method records one error entry (code, predicted id, actual
\* id, confidence) for each prediction that has a ground-truth record and
\* selects another category, in the order of the predictions, and none for
\* any other prediction; correct + errors is the number of predictions whose
\* code is in the ground truth.
C26_OneErrorPerDisagreement ==
    (prog = "score" /\ pc = "evaluated") =>
        LET wrong == SelectSeq(predictions, Disagrees)
        IN  /\ errors = [k \in 1..Len(wrong) |-> ErrorEntry(wrong[k])]
            /\ Correct + Len(errors) =
                  Cardinality({j \in 1..Len(predictions) :
                                  predictions[j].code \in DOMAIN gt_dict(ground_truth)})

\* one prediction agrees, one disagrees
C26_Witness ==
    /\ prog = "score" /\ pc = "evaluated"
    /\ Len(errors) = 1
    /\ Correct = 1

-----------------------------------------------------------------------------
(* Properties of load_validation_data *)

Annotated(d) == d.correct_oekobaudat_id # 0

\* C27: load_validation_data returns the records whose correct_oekobaudat_id
\* is not empty, in their order; when no record is annotated, evaluate_method
\* runs on the empty ground truth and returns accuracy 0 and no errors.
C27_AnnotatedSubsetOnly ==
    /\ (prog = "score" /\ pc \in {"evaluate", "evaluated"}) =>
          ground_truth = SelectSeq(doc, Annotated)
    /\ (prog = "score" /\ pc = "evaluated" /\ \A k \in 1..Len(doc) : ~Annotated(doc[k])) =>
          /\ ground_truth = <<>>
          /\ accuracy = <<0, 1>>
          /\ errors = <<>>

\* a file with records, none annotated, has been scored against predictions
C27_Witness ==
    /\ prog = "score" /\ pc = "evaluated"
    /\ Len(doc) = 2
    /\ \A k \in 1..Len(doc) : ~Annotated(doc[k])
    /\ Len(predictions) = 2
    /\ accuracy = <<0, 1>>

-----------------------------------------------------------------------------
(* Range of the accuracy *)

\* C28: the accuracy evaluate_method returns lies between 0 and 1: the count
\* of correct predictions never exceeds the number of ground-truth records,
\* also when several predictions have the same code.
C28_AccuracyWithinUnitInterval ==
    (prog = "score" /\ pc = "evaluated") =>
        /\ 0 <= accuracy[1]
        /\ accuracy[1] <= accuracy[2]
        /\ Correct <= Len(ground_truth)

-----------------------------------------------------------------------------
(* The ingester of the alignment program, on the same source *)

\* OekobaudatCategory of the alignment program
ParsedCategory(id, name_de, parent_id, full_path_de) ==
    [id |-> id, name_de |-> name_de, parent_id |-> parent_id,
     full_path_de |-> full_path_de,
     uri |-> <<"https://oekobaudat.de/category/", id>>]

\* OekobaudatParser.parse on a document ET.parse accepts: one category per
\* element, appended in document order
parse(d) ==
    IF d.kind # "xml" THEN <<>>
    ELSE [k \in 1..Len(d.nodes) |->
            LET parent == ParentNode(d.nodes, k)
            IN  ParsedCategory(d.nodes[k].id, d.nodes[k].name,
                               IF parent = 0 THEN <<>> ELSE d.nodes[parent].id,
                               PathOf(d.nodes, k))]

\* the (id, parent_id, full_path_de) triples of a collection of categories
Triples(cats) == {<<c.id, c.parent_id, c.full_path_de>> : c \in cats}

\* C29: on every source document the category index of parse_xml and the
\* list of OekobaudatParser.parse hold the same (id, parent_id, full_path_de)
\* triples and the same number of categories, also when an id is repeated.
C29_IngestersAgree ==
    (prog = "build" /\ pc \notin {"parse", "aborted"}) =>
        /\ Triples(Cats) = Triples(Range(parse(doc)))
        /\ Cardinality(DOMAIN index) = Len(parse(doc))

-----------------------------------------------------------------------------
(* Properties of the resolved paths *)

\* C30: after every category was translated, full_path_en is name_en for a
\* top-level category and the parent's full_path_en, "/" and name_en for any
\* other, whatever the label, a label containing "/" included.
C30_ResolvedPathFollowsParent ==
    (prog = "build" /\ pc \in {"graph", "serialize", "done"}) =>
        \A id \in DOMAIN index :
            LET c == index[id]
            IN  IF c.level = 0
                THEN c.full_path_en = c.name_en
                ELSE /\ c.parent_id \in DOMAIN index
                     /\ c.full_path_en =
                           <<index[c.parent_id].full_path_en[1] \o <<"/">> \o c.name_en[1]>>

====
